---- MODULE Spec2Model ----
(***************************************************************************)
(* A model of src/app.py: the entity extractor extract_entities and the    *)
(* gap aggregation of main().                                              *)
(*                                                                         *)
(* Python dicts keep insertion order, and the order of the report's rows   *)
(* depends on it, so a dict is a sequence of records with a unique `key`.  *)
(* Scores are tenths (0.5 is 5, 0.2 is 2).  A category tag is the set of   *)
(* the keywords that occur in it as substrings: `category in t` of the     *)
(* code is membership in that set.                                         *)
(***************************************************************************)
EXTENDS Integers, Sequences, FiniteSets, TLC

VARIABLES
    pc,                  \* position of main(): form, error, analyze_main, ...
    api_key,             \* st.text_input "TextRazor API Key"
    main_url,            \* st.text_input "Main URL"
    competitors_input,   \* st.text_area, as the sequence of its lines
    competitor_urls,     \* line 58
    message,             \* what st.error / st.info showed last
    calls,               \* client.analyze_url calls made: <<[url, ok]>>
    warnings,            \* URLs named by st.warning, in order
    main_entities,       \* line 77
    competitor_entities, \* line 81: dict url -> summary
    k,                   \* competitors consumed by the loop of line 89
    missed_entities,     \* line 87
    mode,                \* coverage policy of the run
    df,                  \* the report rows
    x_pc,                \* position of one extract_entities call
    x_seen,              \* observations its loop has consumed
    x_entities,          \* its local `entities`
    x_result,            \* what it returned
    x_warned,            \* whether it called st.warning
    freebase_types,      \* tags of the observation being classified
    t_i,                 \* tags consumed by the loop of line 23
    entity_type          \* lines 21-29

vars == <<pc, api_key, main_url, competitors_input, competitor_urls, message,
          calls, warnings, main_entities, competitor_entities, k,
          missed_entities, mode, df, x_pc, x_seen, x_entities, x_result,
          x_warned, freebase_types, t_i, entity_type>>

runVars == <<pc, api_key, main_url, competitors_input, competitor_urls,
             message, calls, warnings, main_entities, competitor_entities, k,
             missed_entities, mode, df>>

extractVars == <<x_pc, x_seen, x_entities, x_result, x_warned>>

classifyVars == <<freebase_types, t_i, entity_type>>

----------------------------------------------------------------------------
(* Bounds *)

MaxLines == 3

MaxCompetitors == 3

MaxMentions == 2

MaxObs == 3

MaxTags == 3

(* Program constants *)

ConfidenceMin == 5

RelevanceMin == 2

MultipleThreshold == 2

----------------------------------------------------------------------------
(* Sequences and ordered dicts *)

SeqsUpTo(S, n) == UNION {[1..m -> S] : m \in 0..n}

RECURSIVE SumSeq(_)
SumSeq(s) == IF s = <<>> THEN 0 ELSE s[1] + SumSeq(Tail(s))

Keys(d) == {d[n].key : n \in 1..Len(d)}

IndexOf(d, key) == CHOOSE n \in 1..Len(d) : d[n].key = key

Get(d, key) == d[IndexOf(d, key)]

----------------------------------------------------------------------------
(* extract_entities: type classification, lines 20-29 *)

Keywords == {"organization", "company", "person", "location", "place"}

Tags == {t \in SUBSET Keywords : Cardinality(t) <= 2}

ClassifyTagMutant(type, t) ==
    IF type # "Other" THEN type
    ELSE IF t \cap {"organization", "company"} # {} THEN "Organization"
    ELSE IF "person" \in t THEN "Person"
    ELSE IF t \cap {"location", "place"} # {} THEN "Location"
    ELSE type

ClassifyTag(type, t) ==
    IF t \cap {"organization", "company"} # {} THEN "Organization"
    ELSE IF "person" \in t THEN "Person"
    ELSE IF t \cap {"location", "place"} # {} THEN "Location"
    ELSE type

RECURSIVE ClassifyFrom(_, _)
ClassifyFrom(type, types) ==
    IF types = <<>> THEN type
    ELSE ClassifyFrom(ClassifyTag(type, Head(types)), Tail(types))

\* freebase_types None and [] are both falsy at line 22: both are <<>> here.
EntityType(types) == ClassifyFrom("Other", types)

----------------------------------------------------------------------------
(* extract_entities: the loop body, lines 15-39 *)

Ids == {"A", "B"}

Obs(id, confidence, relevance, types) ==
    [id |-> id, confidence_score |-> confidence, relevance_score |-> relevance,
     freebase_types |-> types]

\* line 17
SkippedMutant(entity) ==
    entity.confidence_score <= ConfidenceMin \/ entity.relevance_score < RelevanceMin

Skipped(entity) ==
    entity.confidence_score < ConfidenceMin \/ entity.relevance_score < RelevanceMin

\* lines 32-37
NewEntry(entity) ==
    [key |-> entity.id, count |-> 1, type |-> EntityType(entity.freebase_types),
     relevance |-> entity.relevance_score, confidence |-> entity.confidence_score]

\* A repeat mention that also takes over the scores and type of the repeat.
AccumulateMutant(entities, entity) ==
    IF Skipped(entity) THEN entities
    ELSE IF entity.id \notin Keys(entities) THEN Append(entities, NewEntry(entity))
    ELSE [entities EXCEPT ![IndexOf(entities, entity.id)] =
              [NewEntry(entity) EXCEPT !.count = entities[IndexOf(entities, entity.id)].count + 1]]

Accumulate(entities, entity) ==
    IF Skipped(entity) THEN entities
    ELSE IF entity.id \notin Keys(entities) THEN Append(entities, NewEntry(entity))
    ELSE [entities EXCEPT ![IndexOf(entities, entity.id)].count = @ + 1]

RECURSIVE AccumulateAll(_, _)
AccumulateAll(entities, response) ==
    IF response = <<>> THEN entities
    ELSE AccumulateAll(Accumulate(entities, Head(response)), Tail(response))

\* An exception that leaves the entities gathered before it.
ExtractEntitiesMutant(failed, response) == AccumulateAll(<<>>, response)

\* extract_entities as a whole: `failed` is an exception anywhere inside the
\* try block, after `response` had been consumed.
ExtractEntities(failed, response) ==
    IF failed THEN <<>> ELSE AccumulateAll(<<>>, response)

----------------------------------------------------------------------------
(* One extract_entities call, observation by observation *)

\* <<confidence, relevance>>: below either threshold, on both, above both.
ScorePairs ==
    {<<ConfidenceMin - 1, RelevanceMin + 1>>, <<ConfidenceMin, RelevanceMin - 1>>,
     <<ConfidenceMin, RelevanceMin>>, <<ConfidenceMin + 1, RelevanceMin + 1>>}

TypeSamples == {<<>>, <<{"person"}, {"place"}>>}

Observations ==
    {Obs(id, sp[1], sp[2], ts) : id \in Ids, sp \in ScorePairs, ts \in TypeSamples}

InitExtract ==
    /\ x_pc = "loop"
    /\ x_seen = <<>>
    /\ x_entities = <<>>
    /\ x_result = <<>>
    /\ x_warned = FALSE

\* lines 15-39: the iterator yields one more observation
ExtractNext ==
    /\ x_pc = "loop"
    /\ Len(x_seen) < MaxObs
    /\ \E entity \in Observations :
          /\ x_seen' = Append(x_seen, entity)
          /\ x_entities' = Accumulate(x_entities, entity)
    /\ UNCHANGED <<x_pc, x_result, x_warned>>

\* line 41
ExtractReturn ==
    /\ x_pc = "loop"
    /\ x_pc' = "returned"
    /\ x_result' = x_entities
    /\ UNCHANGED <<x_seen, x_entities, x_warned>>

\* lines 42-44
ExtractFail ==
    /\ x_pc = "loop"
    /\ x_pc' = "failed"
    /\ x_warned' = TRUE
    /\ x_result' = <<>>
    /\ UNCHANGED <<x_seen, x_entities>>

----------------------------------------------------------------------------
(* The classification loop of one observation, tag by tag *)

InitClassify ==
    /\ freebase_types = <<>>
    /\ t_i = 0
    /\ entity_type = "Other"

\* lines 23-29, one tag
ClassifyStep ==
    /\ t_i < Len(freebase_types)
    /\ t_i' = t_i + 1
    /\ entity_type' = ClassifyTag(entity_type, freebase_types[t_i + 1])
    /\ UNCHANGED freebase_types

----------------------------------------------------------------------------
(* main(): inputs and validation, lines 51-69 *)

\* The lines a user may type, and what str.strip() makes of each.
Lines == {"  ", "u1", " u2 ", "u3"}

Strip(line) ==
    CASE line = "  " -> ""
      [] line = "u1" -> "u1"
      [] line = " u2 " -> "u2"
      [] line = "u3" -> "u3"

\* line 58, without the `if url.strip()` filter
StripLinesMutant(lines) == [n \in 1..Len(lines) |-> Strip(lines[n])]

\* line 58
StripLines(lines) ==
    LET urls == [n \in 1..Len(lines) |-> Strip(lines[n])]
    IN  SelectSeq(urls, LAMBDA url : url # "")

\* What the analysis client may answer for one URL in a run.
ObsA == Obs("A", ConfidenceMin, RelevanceMin, <<{"person"}>>)

ObsB == Obs("B", ConfidenceMin, RelevanceMin, <<>>)

RunResponses == {<<>>, <<ObsA>>, <<ObsB, ObsA, ObsA>>}

Modes == {"ANY", "MULTIPLE", "ALL"}

InitRun ==
    /\ pc = "form"
    /\ api_key \in {"", "key"}
    /\ main_url \in {"", "m"}
    /\ competitors_input \in SeqsUpTo(Lines, MaxLines)
    /\ competitor_urls = <<>>
    /\ message = ""
    /\ calls = <<>>
    /\ warnings = <<>>
    /\ main_entities = <<>>
    /\ competitor_entities = <<>>
    /\ k = 0
    /\ missed_entities = <<>>
    /\ mode = "MULTIPLE"
    /\ df = <<>>

\* lines 58-69: the Analyze button was pressed
Validate ==
    /\ pc = "form"
    /\ competitor_urls' = StripLines(competitors_input)
    /\ IF api_key = ""
       THEN pc' = "error" /\ message' = "Please provide your TextRazor API key."
       ELSE IF main_url = ""
       THEN pc' = "error" /\ message' = "Please provide the main URL."
       ELSE IF competitor_urls' = <<>>
       THEN pc' = "error" /\ message' = "Please provide at least one competitor URL."
       ELSE pc' = "analyze_main" /\ message' = ""
    /\ UNCHANGED <<api_key, main_url, competitors_input, calls, warnings,
                   main_entities, competitor_entities, k, missed_entities, mode, df>>

----------------------------------------------------------------------------
(* main(): extraction, lines 75-83 *)

\* A list of (url, summary) pairs in place of the dict.
PutMutant(d, key, value) == Append(d, [key |-> key, entities |-> value])

\* competitor_entities[url] = summary
Put(d, key, value) ==
    IF key \in Keys(d)
    THEN [d EXCEPT ![IndexOf(d, key)].entities = value]
    ELSE Append(d, [key |-> key, entities |-> value])

\* line 77
AnalyzeMain ==
    /\ pc = "analyze_main"
    /\ \E failed \in BOOLEAN, response \in RunResponses :
          /\ calls' = Append(calls, [url |-> main_url, ok |-> ~failed])
          /\ warnings' = IF failed THEN Append(warnings, main_url) ELSE warnings
          /\ main_entities' = ExtractEntities(failed, response)
    /\ pc' = "analyze_competitors"
    /\ UNCHANGED <<api_key, main_url, competitors_input, competitor_urls, message,
                   competitor_entities, k, missed_entities, mode, df>>

\* lines 82-83, one competitor URL
AnalyzeCompetitor ==
    /\ pc = "analyze_competitors"
    /\ Len(calls) <= Len(competitor_urls)
    /\ LET url == competitor_urls[Len(calls)]
       IN  \E failed \in BOOLEAN, response \in RunResponses :
              /\ calls' = Append(calls, [url |-> url, ok |-> ~failed])
              /\ warnings' = IF failed THEN Append(warnings, url) ELSE warnings
              /\ competitor_entities' =
                    Put(competitor_entities, url, ExtractEntities(failed, response))
    /\ pc' = IF Len(calls') > Len(competitor_urls) THEN "accumulate" ELSE pc
    /\ UNCHANGED <<api_key, main_url, competitors_input, competitor_urls, message,
                   main_entities, k, missed_entities, mode, df>>

----------------------------------------------------------------------------
(* main(): accumulation of the missed entities, lines 87-95 *)

\* The same loop body without the test of line 92.
MissedStepMutant(missed, url, info, main) ==
    LET base == IF info.key \in Keys(missed) THEN missed
                ELSE Append(missed, [key |-> info.key, count |-> 0, type |-> "",
                                     sources |-> <<>>])
        n == IndexOf(base, info.key)
    IN  [base EXCEPT ![n].count = @ + info.count,
                     ![n].type = info.type,
                     ![n].sources = Append(@, url)]

\* The same loop body counting one mention for each source.
MissedStepOneEach(missed, url, info, main) ==
    IF info.key \in Keys(main) THEN missed
    ELSE LET base == IF info.key \in Keys(missed) THEN missed
                     ELSE Append(missed, [key |-> info.key, count |-> 0, type |-> "",
                                          sources |-> <<>>])
             n == IndexOf(base, info.key)
         IN  [base EXCEPT ![n].count = @ + 1,
                          ![n].type = info.type,
                          ![n].sources = Append(@, url)]

\* lines 90-95, one entity of one competitor; the defaultdict of line 87
\* makes the entry on its first access.
MissedStep(missed, url, info, main) ==
    IF info.key \in Keys(main) THEN missed
    ELSE LET base == IF info.key \in Keys(missed) THEN missed
                     ELSE Append(missed, [key |-> info.key, count |-> 0, type |-> "",
                                          sources |-> <<>>])
             n == IndexOf(base, info.key)
         IN  [base EXCEPT ![n].count = @ + info.count,
                          ![n].type = info.type,
                          ![n].sources = Append(@, url)]

\* lines 90-95, all entities of one competitor
RECURSIVE MissedFrom(_, _, _, _)
MissedFrom(missed, url, entities, main) ==
    IF entities = <<>> THEN missed
    ELSE MissedFrom(MissedStep(missed, url, Head(entities), main), url,
                    Tail(entities), main)

\* lines 89-95, one competitor
AccumulateUrl ==
    /\ pc = "accumulate"
    /\ k < Len(competitor_entities)
    /\ k' = k + 1
    /\ missed_entities' = MissedFrom(missed_entities, competitor_entities[k + 1].key,
                                     competitor_entities[k + 1].entities, main_entities)
    /\ pc' = IF k' = Len(competitor_entities) THEN "report" ELSE pc
    /\ UNCHANGED <<api_key, main_url, competitors_input, competitor_urls, message,
                   calls, warnings, main_entities, competitor_entities, mode, df>>

----------------------------------------------------------------------------
(* main(): the report, lines 97-128 *)

MultiplePredicateMutant(found_in_count) == found_in_count > MultipleThreshold

\* line 102
MultiplePredicate(found_in_count) == found_in_count >= MultipleThreshold

AnyPredicate(found_in_count) == found_in_count >= 1

AllPredicate(found_in_count, n) == found_in_count = n

Covered(m, found_in_count, n) ==
    CASE m = "ANY" -> AnyPredicate(found_in_count)
      [] m = "MULTIPLE" -> MultiplePredicate(found_in_count)
      [] m = "ALL" -> AllPredicate(found_in_count, n)

\* lines 103-109; Sources stays the list that ', '.join flattens
Row(info) ==
    [Entity |-> info.key, Type |-> info.type, TotalMentions |-> info.count,
     FoundIn |-> Len(info.sources), Sources |-> info.sources]

\* lines 98-109
DfData(missed, m, n) ==
    LET kept == SelectSeq(missed, LAMBDA info : Covered(m, Len(info.sources), n))
    IN  [i \in 1..Len(kept) |-> Row(kept[i])]

Orders(n) == {f \in [1..n -> 1..n] : \A i, j \in 1..n : i # j => f[i] # f[j]}

\* A sort that keeps the rows in the order of df_data.
SortValuesMutant(rows) == {rows}

\* line 115: sort_values with the default kind='quicksort', which pandas
\* documents as not stable: any descending order of the rows may come out.
SortValues(rows) ==
    {[i \in 1..Len(rows) |-> rows[f[i]]] : f \in
        {g \in Orders(Len(rows)) :
            \A i, j \in 1..Len(rows) :
                i < j => rows[g[i]].TotalMentions >= rows[g[j]].TotalMentions}}

\* lines 97-128
BuildReport ==
    /\ pc = "report"
    /\ \E m \in Modes :
          /\ mode' = m
          /\ LET df_data == DfData(missed_entities, m, Len(competitor_entities))
             IN  IF df_data = <<>>
                 THEN /\ df' = <<>>
                      /\ message' = "No entities found that match the criteria"
                 ELSE /\ df' \in SortValues(df_data)
                      /\ message' = ""
    /\ pc' = "done"
    /\ UNCHANGED <<api_key, main_url, competitors_input, competitor_urls, calls,
                   warnings, main_entities, competitor_entities, k, missed_entities>>

----------------------------------------------------------------------------
(* Specifications *)

\* A whole run of main().
Init == InitRun /\ InitExtract /\ InitClassify

Next ==
    \/ Validate /\ UNCHANGED <<extractVars, classifyVars>>
    \/ AnalyzeMain /\ UNCHANGED <<extractVars, classifyVars>>
    \/ AnalyzeCompetitor /\ UNCHANGED <<extractVars, classifyVars>>
    \/ AccumulateUrl /\ UNCHANGED <<extractVars, classifyVars>>
    \/ BuildReport /\ UNCHANGED <<extractVars, classifyVars>>

Spec == Init /\ [][Next]_vars

\* The aggregation over every collection of summaries extract_entities can return.
AggUrls == <<"u1", "u2", "u3", "u4", "u5">>

AggSummaries == {AccumulateAll(<<>>, r) : r \in SeqsUpTo({ObsA, ObsB}, MaxMentions)}

InitAggregate ==
    /\ pc = "accumulate"
    /\ api_key = "key"
    /\ main_url = "m"
    /\ \E n \in 1..MaxCompetitors :
          /\ competitor_urls = SubSeq(AggUrls, 1, n)
          /\ competitor_entities \in
                {[i \in 1..n |-> [key |-> AggUrls[i], entities |-> f[i]]] :
                    f \in [1..n -> AggSummaries]}
    /\ competitors_input = competitor_urls
    /\ message = ""
    /\ calls = [i \in 1..(Len(competitor_urls) + 1) |->
                   [url |-> IF i = 1 THEN main_url ELSE competitor_urls[i - 1],
                    ok |-> TRUE]]
    /\ warnings = <<>>
    /\ main_entities \in AggSummaries
    /\ k = 0
    /\ missed_entities = <<>>
    /\ mode = "MULTIPLE"
    /\ df = <<>>
    /\ InitExtract
    /\ InitClassify

NextAggregate ==
    \/ AccumulateUrl /\ UNCHANGED <<extractVars, classifyVars>>
    \/ BuildReport /\ UNCHANGED <<extractVars, classifyVars>>

SpecAggregate == InitAggregate /\ [][NextAggregate]_vars

\* One extract_entities call.
InitExtractOnly ==
    /\ InitExtract
    /\ InitClassify
    /\ pc = "analyze_main"
    /\ api_key = "key"
    /\ main_url = "m"
    /\ competitors_input = <<"u1">>
    /\ competitor_urls = <<"u1">>
    /\ message = ""
    /\ calls = <<>>
    /\ warnings = <<>>
    /\ main_entities = <<>>
    /\ competitor_entities = <<>>
    /\ k = 0
    /\ missed_entities = <<>>
    /\ mode = "MULTIPLE"
    /\ df = <<>>

NextExtract ==
    \/ ExtractNext /\ UNCHANGED <<runVars, classifyVars>>
    \/ ExtractReturn /\ UNCHANGED <<runVars, classifyVars>>
    \/ ExtractFail /\ UNCHANGED <<runVars, classifyVars>>

SpecExtract == InitExtractOnly /\ [][NextExtract]_vars

\* The classification of one observation.
InitClassifyOnly ==
    /\ freebase_types \in SeqsUpTo(Tags, MaxTags)
    /\ t_i = 0
    /\ entity_type = "Other"
    /\ InitExtract
    /\ pc = "analyze_main"
    /\ api_key = "key"
    /\ main_url = "m"
    /\ competitors_input = <<"u1">>
    /\ competitor_urls = <<"u1">>
    /\ message = ""
    /\ calls = <<>>
    /\ warnings = <<>>
    /\ main_entities = <<>>
    /\ competitor_entities = <<>>
    /\ k = 0
    /\ missed_entities = <<>>
    /\ mode = "MULTIPLE"
    /\ df = <<>>

NextClassify == ClassifyStep /\ UNCHANGED <<runVars, extractVars>>

SpecClassify == InitClassifyOnly /\ [][NextClassify]_vars

----------------------------------------------------------------------------
(* What the claims speak of, stated from the summaries alone *)

Summary(n) == competitor_entities[n].entities

\* the competitors, by position, whose summary contains e
Containing(e) == {n \in 1..Len(competitor_entities) : e \in Keys(Summary(n))}

CoverageCount(e) == Cardinality(Containing(e))

ReportEntities(rows) == {rows[i].Entity : i \in 1..Len(rows)}

RowOf(rows, e) == rows[CHOOSE i \in 1..Len(rows) : rows[i].Entity = e]

\* e's count in the n-th competitor summary, 0 when it is not there
CountIn(n, e) == IF e \in Keys(Summary(n)) THEN Get(Summary(n), e).count ELSE 0

MentionsOf(e) == SumSeq([n \in 1..Len(competitor_entities) |-> CountIn(n, e)])

\* the URLs among the first n competitors whose summary contains e, in order
SourcesOf(e, n) ==
    LET urls == [i \in 1..n |-> competitor_entities[i].key]
    IN  SelectSeq(urls, LAMBDA url : e \in Keys(Get(competitor_entities, url).entities))

NoRepeat(seq) == \A i, j \in 1..Len(seq) : i # j => seq[i] # seq[j]

\* the distinct URLs of a list, in the order of their first occurrence
RECURSIVE Distinct(_)
Distinct(urls) ==
    IF urls = <<>> THEN <<>>
    ELSE LET front == Distinct(SubSeq(urls, 1, Len(urls) - 1))
             last == urls[Len(urls)]
         IN  IF \E i \in 1..Len(front) : front[i] = last THEN front
             ELSE Append(front, last)

\* where e was first met by the loops of lines 89-90: competitor, then place
\* in that competitor's summary
FirstMet(e) ==
    LET n == CHOOSE m \in Containing(e) : \A o \in Containing(e) : m <= o
    IN  <<n, IndexOf(Summary(n), e)>>

MetBefore(e, f) ==
    \/ FirstMet(e)[1] < FirstMet(f)[1]
    \/ FirstMet(e)[1] = FirstMet(f)[1] /\ FirstMet(e)[2] < FirstMet(f)[2]

Descending(rows) ==
    \A i, j \in 1..Len(rows) : i < j => rows[i].TotalMentions >= rows[j].TotalMentions

----------------------------------------------------------------------------
(* The aggregation claims, under SpecAggregate *)

\* C1. Gap correctness: an entity is a row of the report (once) exactly when
\* it is no key of the main summary and the number of competitor summaries
\* containing it meets the mode: ANY at least 1, MULTIPLE at least 2, ALL
\* as many as there are competitor summaries.
C1_GapCorrectness ==
    pc = "done" =>
        /\ Len(df) = Cardinality(ReportEntities(df))
        /\ \A e \in Ids :
              e \in ReportEntities(df) <=>
                  /\ e \notin Keys(main_entities)
                  /\ CASE mode = "ANY" -> CoverageCount(e) >= 1
                       [] mode = "MULTIPLE" -> CoverageCount(e) >= 2
                       [] mode = "ALL" -> CoverageCount(e) = Len(competitor_entities)

\* MULTIPLE reports one entity and leaves out another that two competitors
\* cover and the main page has too.
C1_Witness ==
    /\ pc = "done"
    /\ mode = "MULTIPLE"
    /\ \E e, f \in Ids :
          /\ e \in ReportEntities(df)
          /\ f \notin ReportEntities(df)
          /\ f \in Keys(main_entities)
          /\ CoverageCount(f) >= 2

\* C5 as claimed. Sort correctness: rows descend by Total Mentions, and rows
\* of equal Total Mentions keep the order in which their entities were first
\* met while iterating the competitor summaries.
C5_SortStable ==
    pc = "done" =>
        /\ Descending(df)
        /\ \A i, j \in 1..Len(df) :
              i < j /\ df[i].TotalMentions = df[j].TotalMentions
                  => MetBefore(df[i].Entity, df[j].Entity)

EntitiesUnder(m) ==
    ReportEntities(DfData(missed_entities, m, Len(competitor_entities)))

\* C6 as claimed. Coverage monotonicity for any number of competitors: what
\* ALL reports is among what MULTIPLE reports, which is among what ANY reports.
C6_Monotone ==
    pc \in {"report", "done"} =>
        /\ EntitiesUnder("ALL") \subseteq EntitiesUnder("MULTIPLE")
        /\ EntitiesUnder("MULTIPLE") \subseteq EntitiesUnder("ANY")

\* C6 amended. With two or more competitors ALL is within MULTIPLE; with any
\* number of competitors ALL and MULTIPLE are within ANY.
C6_MonotoneFromTwo ==
    pc \in {"report", "done"} =>
        /\ Len(competitor_entities) >= 2 =>
              EntitiesUnder("ALL") \subseteq EntitiesUnder("MULTIPLE")
        /\ EntitiesUnder("ALL") \subseteq EntitiesUnder("ANY")
        /\ EntitiesUnder("MULTIPLE") \subseteq EntitiesUnder("ANY")

\* Several competitors, ALL reports something and MULTIPLE reports more.
C6_Witness ==
    /\ pc = "done"
    /\ Len(competitor_entities) >= 2
    /\ EntitiesUnder("ALL") # {}
    /\ EntitiesUnder("ALL") # EntitiesUnder("MULTIPLE")

\* C8. Total Mentions of a row is the sum of its entity's counts over the
\* competitor summaries that contain it; nothing else adds to it.
C8_TotalMentions ==
    pc = "done" =>
        \A i \in 1..Len(df) : df[i].TotalMentions = MentionsOf(df[i].Entity)

\* A row summing different counts of two competitors while a third does not
\* have the entity, and the main summary is not empty.
C8_Witness ==
    /\ pc = "done"
    /\ main_entities # <<>>
    /\ \E i \in 1..Len(df) :
          /\ df[i].FoundIn = 2
          /\ df[i].FoundIn < Len(competitor_entities)
          /\ df[i].TotalMentions = 3

----------------------------------------------------------------------------
(* The claims about a whole run, under Spec *)

FailedUrls == [n \in 1..Len(SelectSeq(calls, LAMBDA c : ~c.ok)) |->
                  SelectSeq(calls, LAMBDA c : ~c.ok)[n].url]

\* the last call made for the competitor url failed
LastCallFailed(url) ==
    \E n \in 2..Len(calls) :
        /\ calls[n].url = url
        /\ ~calls[n].ok
        /\ \A m \in (n + 1)..Len(calls) : calls[m].url # url

\* The rows of the report that the summaries stand for, with the summary of
\* every URL whose analysis failed taken as empty.
ExpectedRows ==
    LET main == IF calls[1].ok THEN main_entities ELSE <<>>
        has(n, e) == ~LastCallFailed(competitor_entities[n].key) /\ e \in Keys(Summary(n))
        found(e) == {n \in 1..Len(competitor_entities) : has(n, e)}
        covered(e) ==
            CASE mode = "ANY" -> Cardinality(found(e)) >= 1
              [] mode = "MULTIPLE" -> Cardinality(found(e)) >= 2
              [] mode = "ALL" -> Cardinality(found(e)) = Len(competitor_entities)
        last(e) == CHOOSE n \in found(e) : \A o \in found(e) : o <= n
    IN  {[Entity |-> e,
          Type |-> Get(Summary(last(e)), e).type,
          TotalMentions |->
              SumSeq([n \in 1..Len(competitor_entities) |->
                         IF has(n, e) THEN CountIn(n, e) ELSE 0]),
          FoundIn |-> Cardinality(found(e)),
          Sources |->
              SelectSeq([n \in 1..Len(competitor_entities) |-> competitor_entities[n].key],
                        LAMBDA url : has(IndexOf(competitor_entities, url), e))] :
         e \in {f \in Ids : f \notin Keys(main) /\ found(f) # {} /\ covered(f)}}

\* C2. Per-URL failure isolation: every failed analysis call is answered by a
\* warning naming its URL and by an empty summary for that call, every URL is
\* still analysed, and the report of the finished run is the one the
\* summaries give with the failed URLs' summaries empty.
C2_FailureIsolation ==
    /\ warnings = FailedUrls
    /\ (Len(calls) >= 1 /\ ~calls[1].ok) => main_entities = <<>>
    /\ \A n \in 1..Len(competitor_entities) :
          LastCallFailed(competitor_entities[n].key) => Summary(n) = <<>>
    /\ pc \in {"accumulate", "report", "done"} =>
          /\ Len(calls) = 1 + Len(competitor_urls)
          /\ \A n \in 1..Len(competitor_urls) : calls[n + 1].url = competitor_urls[n]
    /\ pc = "done" =>
          /\ Len(df) = Cardinality(ExpectedRows)
          /\ {df[i] : i \in 1..Len(df)} = ExpectedRows

\* The analysis of the second of three competitors failed, the third was
\* analysed after it and the report has a row.
C2_Witness ==
    /\ pc = "done"
    /\ Len(calls) = 4
    /\ calls[1].ok /\ calls[2].ok /\ ~calls[3].ok /\ calls[4].ok
    /\ warnings = <<calls[3].url>>
    /\ Len(competitor_entities) = 3
    /\ mode = "MULTIPLE"
    /\ df # <<>>

AllBlank(lines) == \A n \in 1..Len(lines) : Strip(lines[n]) = ""

InputInvalid == api_key = "" \/ main_url = "" \/ AllBlank(competitors_input)

\* C3. Validation precedes extraction: with no API key, no main URL or no
\* competitor URL left after blank lines are dropped, the run shows an error
\* and stops with no analysis call made; an analysis call is only ever made
\* with all three present.
C3_ValidationFirst ==
    /\ InputInvalid => pc \in {"form", "error"} /\ calls = <<>>
    /\ pc = "error" => InputInvalid /\ message # "" /\ calls = <<>>
    /\ calls # <<>> => ~InputInvalid

\* The run stopped on competitor lines that are all blank.
C3_Witness ==
    /\ pc = "error"
    /\ api_key # ""
    /\ main_url # ""
    /\ competitors_input # <<>>
    /\ calls = <<>>

\* C9. Sources invariant: throughout the accumulation and in the report, the
\* sources of a missed entity are the competitor URLs processed so far whose
\* summary contains it, in processing order and without repeats even when
\* the competitor list repeats a URL; Found In is the length of that list
\* and never exceeds the number of distinct competitor URLs.
C9_Sources ==
    /\ NoRepeat([n \in 1..Len(competitor_entities) |-> competitor_entities[n].key])
    /\ pc \in {"accumulate", "report", "done"} =>
          /\ [n \in 1..Len(competitor_entities) |-> competitor_entities[n].key]
                = Distinct(competitor_urls)
          /\ \A e \in Ids :
                IF e \in Keys(main_entities) \/ SourcesOf(e, k) = <<>>
                THEN e \notin Keys(missed_entities)
                ELSE /\ e \in Keys(missed_entities)
                     /\ Get(missed_entities, e).sources = SourcesOf(e, k)
                     /\ NoRepeat(Get(missed_entities, e).sources)
    /\ pc = "done" =>
          \A i \in 1..Len(df) :
              /\ df[i].Sources = SourcesOf(df[i].Entity, Len(competitor_entities))
              /\ NoRepeat(df[i].Sources)
              /\ df[i].FoundIn = Len(df[i].Sources)
              /\ df[i].FoundIn <= Cardinality({competitor_urls[n] : n \in 1..Len(competitor_urls)})

\* The competitor list repeats a URL and a row is found in two competitors.
C9_Witness ==
    /\ pc = "done"
    /\ Len(competitor_urls) = 3
    /\ competitor_urls[1] = competitor_urls[3]
    /\ competitor_urls[1] # competitor_urls[2]
    /\ \E i \in 1..Len(df) :
          df[i].Sources = <<competitor_urls[1], competitor_urls[2]>>

----------------------------------------------------------------------------
(* The claims about extract_entities, under SpecExtract and SpecClassify *)

\* what the retention filter is claimed to keep
Kept(entity) == entity.confidence_score >= 5 /\ entity.relevance_score >= 2

\* the kept observations of an identity among those consumed, in order
KeptOf(id, seen) == SelectSeq(seen, LAMBDA entity : entity.id = id /\ Kept(entity))

\* C4. Retention filter: an observation with confidence below 0.5 or
\* relevance below 0.2 is in no summary and adds to no count; one with
\* confidence at least 0.5 and relevance at least 0.2 is always in it.
C4_Retention ==
    /\ \A id \in Ids :
          IF KeptOf(id, x_seen) = <<>>
          THEN id \notin Keys(x_entities)
          ELSE /\ id \in Keys(x_entities)
               /\ Get(x_entities, id).count = Len(KeptOf(id, x_seen))
    /\ Keys(x_entities) \subseteq Ids
    /\ x_pc = "returned" => x_result = x_entities

\* A returned summary that has an observation sitting on both thresholds and
\* lacks one below the confidence threshold and one below the relevance one.
C4_Witness ==
    /\ x_pc = "returned"
    /\ Len(x_seen) = 3
    /\ x_seen[1].confidence_score = 4 /\ x_seen[1].relevance_score >= 2
    /\ x_seen[2].confidence_score >= 5 /\ x_seen[2].relevance_score = 1
    /\ x_seen[3].confidence_score = 5 /\ x_seen[3].relevance_score = 2
    /\ x_seen[1].id = x_seen[2].id /\ x_seen[2].id # x_seen[3].id
    /\ Keys(x_result) = {x_seen[3].id}

\* one step of the loop, seen from outside
Consumed == x_seen'[Len(x_seen')]

\* C7. Repeat-mention frame condition: a kept observation of an identity the
\* summary already has adds 1 to that entry's count and changes nothing else;
\* type, relevance and confidence stay those of the first kept observation,
\* so each count is the number of kept observations of its identity, >= 1.
C7_RepeatFrame ==
    [][x_seen' # x_seen =>
          /\ \A n \in 1..Len(x_entities) :
                x_entities'[n] =
                    IF Kept(Consumed) /\ Consumed.id = x_entities[n].key
                    THEN [x_entities[n] EXCEPT !.count = x_entities[n].count + 1]
                    ELSE x_entities[n]
          /\ (Kept(Consumed) /\ Consumed.id \in Keys(x_entities))
                => Len(x_entities') = Len(x_entities)
          /\ \A n \in 1..Len(x_entities') :
                LET first == KeptOf(x_entities'[n].key, x_seen')[1]
                IN  /\ x_entities'[n].count = Len(KeptOf(x_entities'[n].key, x_seen'))
                    /\ x_entities'[n].count >= 1
                    /\ x_entities'[n].relevance = first.relevance_score
                    /\ x_entities'[n].confidence = first.confidence_score
                    /\ x_entities'[n].type = EntityType(first.freebase_types)]_vars

\* An identity kept twice, the second time with other scores and other tags,
\* beside an entry of another identity.
C7_Witness ==
    /\ Len(x_seen) = 3
    /\ Len(x_entities) = 2
    /\ x_entities[1].count = 2
    /\ x_seen[3].id = x_entities[1].key
    /\ Kept(x_seen[3])
    /\ x_seen[3].confidence_score # x_entities[1].confidence
    /\ x_seen[3].relevance_score # x_entities[1].relevance
    /\ EntityType(x_seen[3].freebase_types) # x_entities[1].type

\* the category a tag stands for; a tag naming several is taken in the order
\* the categories are listed
CategoryOf(t) ==
    IF "organization" \in t \/ "company" \in t THEN "Organization"
    ELSE IF "person" \in t THEN "Person"
    ELSE IF "location" \in t \/ "place" \in t THEN "Location"
    ELSE "None"

\* the type the first n tags give: that of the last tag that matches
TypeAfter(types, n) ==
    LET matching == {i \in 1..n : types[i] \cap Keywords # {}}
    IN  IF matching = {} THEN "Other"
        ELSE CategoryOf(types[CHOOSE i \in matching : \A j \in matching : j <= i])

\* C10. Type classification: the tags are scanned in order, organization or
\* company gives Organization, person gives Person, location or place gives
\* Location; the last matching tag decides, tags that match nothing after it
\* do not reset it, and with no matching tag or no tag the type is Other.
C10_Classification ==
    /\ entity_type = TypeAfter(freebase_types, t_i)
    /\ EntityType(freebase_types) = TypeAfter(freebase_types, Len(freebase_types))

\* Organization, then Person, then a tag that matches nothing: Person.
C10_Witness ==
    /\ Len(freebase_types) = 3
    /\ t_i = 3
    /\ freebase_types[1] = {"company"}
    /\ freebase_types[2] = {"person"}
    /\ freebase_types[3] = {}
    /\ entity_type = "Person"

====
